---- MODULE Spec2Model ----
(***************************************************************************)
(* Model of the meeting coordinator of my_meet:                            *)
(*   - the Socket.IO controller (backend/src/modules/sockets/socket.ts,    *)
(*     found as src/unnamed/part_004): join-meeting, leave-meeting,        *)
(*     send-message, send-reaction, media-state-changed, raise-hand and    *)
(*     disconnect handlers, with the meetingParticipants table that        *)
(*     drives recording, over the rooms of the Socket.IO 4 adapter;        *)
(*   - the recording service (recording.service.ts): startRecording,       *)
(*     stopRecording and getLatestRecordingForMeeting over                 *)
(*     activeRecordings / completedRecordings and the recordings           *)
(*     directory.                                                          *)
(*                                                                         *)
(* Node runs the handlers on one thread.  Socket.IO starts the listener    *)
(* of each decoded packet with process.nextTick, and Node runs every       *)
(* queued nextTick callback before it runs promise continuations.  So the  *)
(* listeners of the packets of one payload (all from one connection) each  *)
(* run to their first await before any of them resumes; the               *)
(* continuations that wait on settled promises then run in the order in    *)
(* which their promises settle, before any I/O callback.  The only awaits  *)
(* on real I/O are the file-system calls inside startRecording and        *)
(* getLatestRecordingForMeeting.  One action of the model is one such      *)
(* stretch: a listener up to its first await, one continuation, one        *)
(* file-system request carried out by the operating system (a file         *)
(* opened, written, the directory read, a file's stat taken), or the       *)
(* completion of a file-system call with the continuations that follow     *)
(* it.  A promise rejection that nothing handles ends the process.         *)
(***************************************************************************)
EXTENDS Integers, Sequences, FiniteSets, Bags, TLC

\* ---------------------------------------------------------------- bounds
MaxChanges == 3      \* join-meeting, leave-meeting and disconnect events handled
MaxChatChanges == 1  \* the same, in the specification that adds the chat events
MaxRoomChanges == 2  \* the same, in the specification of the well-formed chat events
MaxCalls == 4        \* calls made on the recording service directly
MaxScanCalls == 3    \* the same, with the scans of the directory and the restarts

\* ------------------------------------------------------------- constants
MsPerSecond == 1000 \* recording.service.ts: (endedAt - startedAt) / 1000

Conns == {"s1", "s2"}            \* socket ids
\* the meeting codes in use: an ordinary one, one that begins with it and an
\* underscore, and one that is the id of a socket
Rooms == {"A", "A_1", "s2"}
\* meetingCode of a socket payload ("" is falsy)
Codes == {"A", "s2", ""}
\* rooms of the Socket.IO adapter: a socket is put in the room named by its own
\* id when it connects
RoomNames == Rooms \cup Conns
\* meeting codes passed to the recording service when it is called directly
RecordingCodes == {"A", "A_1"}
Names == {"", "ann"}             \* userName / sender of a payload
Texts == {"", "hi"}              \* message / reaction of a payload
TickMs == MsPerSecond \div 2
\* readings of Date.now() while the server runs: the clock stands still or
\* runs on by half a second
TickReadings == {0, TickMs}
\* readings of Date.now() offered to the recording service on its own: the wall
\* clock may stand still, run on, or be set back between two readings
ClockReadings == {0, 3 * TickMs}
\* the timestamp field a client puts in its raise-hand payload
ClientTimestamps == {1, 2}

VARIABLES
  connected,            \* sockets whose connection is open
  closed,               \* sockets that have disconnected (ids are not reused)
  socketRooms,          \* Socket.IO adapter, rooms: room name -> sockets in it
  sids,                 \* Socket.IO adapter, sids: socket -> its rooms, as joined
  meetingParticipants,  \* socket.ts: Map<string, Set<string>>
  activeRecordings,     \* recording.service.ts: Map<string, RecordingMeta>
  completedRecordings,  \* recording.service.ts: Map<string, RecordingMeta[]>
  files,                \* uploads/recordings: path of each file -> its mtime
  tasks,                \* calls suspended on the file system, with their callers
  microtasks,           \* handlers suspended on a settled promise, oldest first
  phase,                \* "run", "drain" (continuations being resumed) or "exit"
  now,                  \* Date.now()
  handled,              \* join-meeting, leave-meeting and disconnect events so far
  lastOp,               \* per meeting, the last recording call the controller issued
  emptySeen,            \* per meeting, joins that saw it empty in this occupancy
  last                  \* what the last turn did: event, deliveries, calls

vars == <<connected, closed, socketRooms, sids, meetingParticipants, activeRecordings,
          completedRecordings, files, tasks, microtasks, phase, now, handled, lastOp,
          emptySeen, last>>

\* ------------------------------------------------------------ Map helpers
EmptyMap == [k \in {} |-> {}]
Has(m, k) == k \in DOMAIN m
Put(m, k, v) == [x \in (DOMAIN m) \cup {k} |-> IF x = k THEN v ELSE m[x]]
Del(m, k) == [x \in (DOMAIN m) \ {k} |-> m[x]]

\* JavaScript truthiness of a string: !s is true exactly for "" (and undefined)
Falsy(s) == s = ""

\* Math.round(ms / 1000): halves round towards +Infinity
RoundSeconds(ms) == (ms + (MsPerSecond \div 2)) \div MsPerSecond
\* (mutant) Math.round(...) alone, without Math.max(1, ...)
MaxWithoutFloor(a, b) == b

Max(a, b) == IF a >= b THEN a ELSE b

\* ------------------------------------------------------------- deliveries
\* One packet arriving at a client.  room is the Socket.IO room it was sent to
\* ("" for a packet sent to one socket); the other fields are the payload.
Packet(event, to, room, meetingCode, socketId, userName, body, ts) ==
  [event |-> event, to |-> to, room |-> room, meetingCode |-> meetingCode,
   socketId |-> socketId, userName |-> userName, body |-> body, timestamp |-> ts]

\* socket.to(room): Socket.IO 4 hands the adapter the room and the excepted
\* room named socket.id; the packet goes to every socket in the room that is
\* not in the excepted room.  The socket is in the room of its own id from its
\* connection until it leaves it, and other sockets may have joined it.
BroadcastExcept(rooms, room, socketId) == rooms[room] \ rooms[socketId]

\* (mutant) io.emit where io.to(room).emit was meant: every open connection
BroadcastToEveryone(rooms, room) == UNION {rooms[r] : r \in DOMAIN rooms}

\* io.to(room): every socket in the room
BroadcastAll(rooms, room) == rooms[room]

\* socket.emit(...): reaches the client only while the connection is open
ToSelf(conn, socketId) == IF socketId \in conn THEN {socketId} ELSE {}

\* ------------------------------------------------------ recording service
\* stopRecording (no await inside: it runs to completion when called)
StopRecording(s, meetingCode) ==
  IF ~Has(s.active, meetingCode) THEN s
  ELSE LET active == s.active[meetingCode]
           endedAt == s.now
           durationSeconds == Max(1, RoundSeconds(endedAt - active.startedAt))
           meta == [meetingCode |-> active.meetingCode, filePath |-> active.filePath,
                    startedAt |-> active.startedAt, endedAt |-> endedAt,
                    durationSeconds |-> durationSeconds]
       IN [s EXCEPT !.completed[meetingCode] = Append(@, meta),
                    !.active = Del(s.active, meetingCode),
                    !.ret = <<meta>>]

\* ------------------------------------------------------------- controller
\* (mutant) startRecording is awaited on every join, relying on its idempotence
WasEmptyAlways(participants) == TRUE

\* (mutant) participants.size < 0 where === 0 was meant: the entry is never deleted
NowEmptyNever(participants) == FALSE

\* (mutant) participants.size <= 1 where === 0 was meant
WasEmptyOffByOne(participants) == Cardinality(participants) <= 1

\* handleParticipantJoin, line 56: const wasEmpty = participants.size === 0
WasEmpty(participants) == participants = {}

\* handleParticipantLeave, line 72: participants.size === 0
NowEmpty(participants) == participants = {}

\* a recording call as the controller issues it
Call(op, s, meetingCode) ==
  [op |-> op, room |-> meetingCode, activeBefore |-> Has(s.active, meetingCode)]

\* (mutant) stopRecording is called whenever a participant leaves
HandleParticipantLeaveAlwaysStops(s, meetingCode, socketId) ==
  IF ~Has(s.mp, meetingCode) THEN s
  ELSE LET participants == s.mp[meetingCode] \ {socketId}
           s1 == [s EXCEPT !.mp = IF NowEmpty(participants) THEN Del(s.mp, meetingCode)
                                  ELSE Put(s.mp, meetingCode, participants),
                           !.calls = Append(@, Call("stop", s, meetingCode))]
       IN StopRecording(s1, meetingCode)

\* (mutant) the emptied meeting is dropped from the table but stopRecording is not called
HandleParticipantLeaveForgetsStop(s, meetingCode, socketId) ==
  IF ~Has(s.mp, meetingCode) THEN s
  ELSE LET participants == s.mp[meetingCode] \ {socketId}
       IN IF NowEmpty(participants)
          THEN [s EXCEPT !.mp = Del(s.mp, meetingCode)]
          ELSE [s EXCEPT !.mp = Put(s.mp, meetingCode, participants)]

\* handleParticipantLeave: stopRecording has no await inside, so it has run to
\* its end when handleParticipantLeave awaits it at line 74
HandleParticipantLeave(s, meetingCode, socketId) ==
  IF ~Has(s.mp, meetingCode) THEN s
  ELSE LET participants == s.mp[meetingCode] \ {socketId}
       IN IF NowEmpty(participants)
          THEN LET s1 == [s EXCEPT !.mp = Del(s.mp, meetingCode),
                                   !.calls = Append(@, Call("stop", s, meetingCode))]
               IN StopRecording(s1, meetingCode)
          ELSE [s EXCEPT !.mp = Put(s.mp, meetingCode, participants)]

\* The mutable server state a handler works on, as one record
Server ==
  [mp |-> meetingParticipants, active |-> activeRecordings,
   completed |-> completedRecordings, rooms |-> socketRooms, sids |-> sids,
   now |-> now,
   calls |-> <<>>, emits |-> {}, ret |-> <<>>]

\* the record of a turn: the event with its payload, the packets delivered, the
\* recording calls issued, whether the handler's promise rejected, and what a
\* recording call that returned in the turn returned (<<>> for null or nothing)
Turn(op, socketId, room, userName, body, s, rejected) ==
  [op |-> op, conn |-> socketId, room |-> room, userName |-> userName, body |-> body,
   emits |-> s.emits, calls |-> s.calls, rejected |-> rejected, ret |-> s.ret]

\* ghost bookkeeping derived from the calls of a turn
NextLastOp(s) ==
  [r \in Rooms |->
     IF s.calls = <<>> \/ \A i \in 1..Len(s.calls) : s.calls[i].room # r THEN lastOp[r]
     ELSE LET i == CHOOSE j \in 1..Len(s.calls) :
                      s.calls[j].room = r /\ \A k \in (j+1)..Len(s.calls) : s.calls[k].room # r
          IN s.calls[i].op]

Init ==
  /\ connected = {}
  /\ closed = {}
  /\ socketRooms = [r \in RoomNames |-> {}]
  /\ sids = [c \in Conns |-> <<>>]
  /\ meetingParticipants = EmptyMap
  /\ activeRecordings = EmptyMap
  /\ completedRecordings = [r \in Rooms |-> <<>>]
  /\ files = EmptyMap
  /\ tasks = EmptyBag
  /\ microtasks = <<>>
  /\ phase = "run"
  /\ now = 0
  /\ handled = 0
  /\ lastOp = [r \in Rooms |-> "none"]
  /\ emptySeen = [r \in Rooms |-> 0]
  /\ last = Turn("init", "", "", "", "", Server, FALSE)

\* ---------------------------------------------------------- the event loop
\* no handler is suspended on a settled promise: the event loop takes the next
\* I/O callback (a packet, a closed connection, a finished file-system call)
Idle == phase = "run" /\ microtasks = <<>>

\* Socket.IO starts the listener of each packet of a payload with
\* process.nextTick; they all run before the first continuation, and they all
\* belong to the connection the payload came in on
BatchOpen(c) ==
  /\ phase = "run"
  /\ \A i \in 1..Len(microtasks) : microtasks[i].conn = c

\* a handler suspended at "await handleParticipantJoin(...)" (pc "join"), at
\* "await handleParticipantLeave(...)" of leave-meeting (pc "leave") or at that
\* of the loop of the disconnect listener (pc "disconnect", rest being the
\* rooms the loop has still to visit); hops is the number of promise reactions
\* that run before it resumes
Microtask(socketId, meetingCode, userName, pc, hops) ==
  [conn |-> socketId, room |-> meetingCode, userName |-> userName, pc |-> pc,
   hops |-> hops, rest |-> <<>>]

\* the continuation Node runs next: the one with the fewest hops, the oldest
\* among those
NextMicrotask ==
  CHOOSE i \in 1..Len(microtasks) :
    \A j \in 1..Len(microtasks) :
      \/ microtasks[j].hops > microtasks[i].hops
      \/ microtasks[j].hops = microtasks[i].hops /\ j >= i

\* an exception or a promise rejection that nothing handles: Node prints it and
\* exits with code 1.  Every connection closes and everything held in memory
\* is gone; the files stay.
ProcessExit(turn) ==
  /\ connected' = {}
  /\ closed' = closed \cup connected
  /\ socketRooms' = [r \in RoomNames |-> {}]
  /\ sids' = [c \in Conns |-> <<>>]
  /\ meetingParticipants' = EmptyMap
  /\ activeRecordings' = EmptyMap
  /\ completedRecordings' = [r \in Rooms |-> <<>>]
  /\ tasks' = EmptyBag
  /\ microtasks' = <<>>
  /\ phase' = "exit"
  /\ lastOp' = [r \in Rooms |-> "none"]
  /\ emptySeen' = [r \in Rooms |-> 0]
  /\ last' = turn
  /\ UNCHANGED <<files, now, handled>>

\* io.on('connection'): Socket.IO puts the socket in the room named by its id
Connect(c) ==
  /\ Idle
  /\ c \notin connected \cup closed
  /\ connected' = connected \cup {c}
  /\ socketRooms' = [socketRooms EXCEPT ![c] = @ \cup {c}]
  /\ sids' = [sids EXCEPT ![c] = <<c>>]
  /\ last' = Turn("connection", c, "", "", "", Server, FALSE)
  /\ UNCHANGED <<closed, meetingParticipants, activeRecordings, completedRecordings,
                 files, tasks, microtasks, phase, now, handled, lastOp, emptySeen>>

\* socket.join(room): the adapter adds the room to the socket's set of rooms
\* (a Set: a room already in it keeps its place) and the socket to the room
SocketJoin(s, socketId, room) ==
  [s EXCEPT !.rooms[room] = @ \cup {socketId},
            !.sids[socketId] = IF \E i \in 1..Len(@) : @[i] = room THEN @
                               ELSE Append(@, room)]

\* socket.leave(room)
SocketLeave(s, socketId, room) ==
  [s EXCEPT !.rooms[room] = @ \ {socketId},
            !.sids[socketId] = SelectSeq(@, LAMBDA r : r # room)]

\* the clock
Tick ==
  /\ phase # "exit"
  /\ \E reading \in TickReadings : reading > now /\ now' = reading
  /\ last' = Turn("tick", "", "", "", "", Server, FALSE)
  /\ UNCHANGED <<connected, closed, socketRooms, sids, meetingParticipants, activeRecordings,
                 completedRecordings, files, tasks, microtasks, phase, handled, lastOp,
                 emptySeen>>

\* what a turn leaves behind
Commit(s) ==
  /\ meetingParticipants' = s.mp
  /\ activeRecordings' = s.active
  /\ completedRecordings' = s.completed
  /\ socketRooms' = s.rooms
  /\ sids' = s.sids
  /\ lastOp' = NextLastOp(s)

\* a listener is called with no payload: the destructuring in its first line
\* throws a TypeError.  In the listeners that are not async (send-message,
\* send-reaction, media-state-changed, raise-hand) it is an uncaught exception,
\* thrown while the listeners of the payload are still running, so a listener
\* of the payload that is suspended never resumes; in join-meeting and
\* leave-meeting it is a rejection of the listener's promise, reported once
\* the continuations queued before it have run.
AsyncEvents == {"join-meeting", "leave-meeting"}
SyncEvents == {"send-message", "send-reaction", "media-state-changed", "raise-hand"}

NoPayload(c, event) ==
  /\ c \in connected
  /\ IF event \in AsyncEvents THEN Idle ELSE BatchOpen(c)
  /\ ProcessExit(Turn("no-payload", c, "", "", event, Server, TRUE))

\* ------------------------------------------------------------ join-meeting
\* (mutant) the test of userName is left out
JoinValidWithoutName(meetingCode, userName) == ~Falsy(meetingCode)

\* line 108: if (!meetingCode || !userName)
JoinValid(meetingCode, userName) == ~(Falsy(meetingCode) \/ Falsy(userName))

\* (mutant) the set stored is a new Set([socketId]), not the one read
HandleParticipantJoinReplacesSet(s, meetingCode, socketId) ==
  LET participants == IF Has(s.mp, meetingCode) THEN s.mp[meetingCode] ELSE {}
      wasEmpty == WasEmpty(participants)
      s1 == [s EXCEPT !.mp = Put(s.mp, meetingCode, {socketId})]
  IN IF wasEmpty THEN [s1 EXCEPT !.calls = Append(@, Call("start", s1, meetingCode))]
     ELSE s1

\* (mutant) the emptiness test is made after the add, as "I am the only member"
HandleParticipantJoinTestsAfterAdd(s, meetingCode, socketId) ==
  LET participants == (IF Has(s.mp, meetingCode) THEN s.mp[meetingCode] ELSE {}) \cup {socketId}
      s1 == [s EXCEPT !.mp = Put(s.mp, meetingCode, participants)]
  IN IF Cardinality(participants) = 1
     THEN [s1 EXCEPT !.calls = Append(@, Call("start", s1, meetingCode))]
     ELSE s1

\* handleParticipantJoin up to the call of startRecording (lines 55-62)
HandleParticipantJoin(s, meetingCode, socketId) ==
  LET participants == IF Has(s.mp, meetingCode) THEN s.mp[meetingCode] ELSE {}
      wasEmpty == WasEmpty(participants)
      s1 == [s EXCEPT !.mp = Put(s.mp, meetingCode, participants \cup {socketId})]
  IN IF wasEmpty THEN [s1 EXCEPT !.calls = Append(@, Call("start", s1, meetingCode))]
     ELSE s1

\* what Date.now() can read later in a turn that has read s.now: the same
\* value, or one the clock has run on to
LaterReadings(s) == {s.now} \cup {reading \in TickReadings : reading > s.now}

\* lines 118-130, after handleParticipantJoin has returned.  The clock is read
\* twice: at line 122 for user-joined, and again at line 129, as later, for
\* joined-meeting.
JoinedEmits(s, conn, meetingCode, socketId, userName, later) ==
  { Packet("user-joined", to, meetingCode, "", socketId, userName, "", s.now) :
      to \in BroadcastExcept(s.rooms, meetingCode, socketId) }
  \cup
  { Packet("joined-meeting", to, "", meetingCode, "", userName, "", later) :
      to \in ToSelf(conn, socketId) }

ErrorEmit(conn, socketId, text) ==
  { Packet("error", to, "", "", "", "", text, -1) : to \in ToSelf(conn, socketId) }

\* a call of startRecording suspended on the file system, with the join-meeting
\* handler that awaits it (conn is "" when the service was called directly)
Task(socketId, meetingCode, userName, pc, timestamp) ==
  [conn |-> socketId, room |-> meetingCode, userName |-> userName, pc |-> pc,
   timestamp |-> timestamp, found |-> EmptyMap]

\* lines 105-116: the listener up to its await.  When the meeting had members
\* handleParticipantJoin returns without awaiting anything and the listener
\* resumes after one hop; else it is suspended inside startRecording.
JoinMeeting(c, meetingCode, userName, max) ==
  /\ c \in connected
  /\ BatchOpen(c)
  /\ handled < max
  /\ handled' = handled + 1
  /\ IF ~JoinValid(meetingCode, userName)
     THEN /\ last' = Turn("join-meeting", c, meetingCode, userName, "",
                           [Server EXCEPT !.emits = ErrorEmit(connected, c,
                                             "meetingCode and userName are required")],
                           FALSE)
          /\ UNCHANGED <<socketRooms, sids, meetingParticipants, activeRecordings,
                         completedRecordings, tasks, microtasks, lastOp, emptySeen>>
     ELSE LET s0 == SocketJoin(Server, c, meetingCode)              \* line 114
              s1 == HandleParticipantJoin(s0, meetingCode, c)
              started == s1.calls # <<>>
          IN /\ Commit(s1)
             /\ tasks' = IF started
                         THEN tasks (+) SetToBag({Task(c, meetingCode, userName, "ensureDir", 0)})
                         ELSE tasks
             /\ microtasks' = IF started THEN microtasks
                              ELSE Append(microtasks,
                                          Microtask(c, meetingCode, userName, "join", 1))
             /\ emptySeen' = IF started
                             THEN [emptySeen EXCEPT ![meetingCode] = @ + 1]
                             ELSE emptySeen
             /\ last' = Turn("join-meeting", c, meetingCode, userName, "", s1, FALSE)
  /\ UNCHANGED <<connected, closed, files, now, phase>>

\* lines 153-158, after handleParticipantLeave has returned
LeftEmits(s, meetingCode, socketId, userName) ==
  { Packet("user-left", to, meetingCode, "", socketId, userName, "", s.now) :
      to \in BroadcastExcept(s.rooms, meetingCode, socketId) }

\* Socket.IO closes a socket in this order: it emits 'disconnecting', leaves
\* every room of the socket, and only then emits 'disconnect'.
LeaveAll(s, socketId) ==
  [s EXCEPT !.rooms = [r \in RoomNames |-> @[r] \ {socketId}],
            !.sids[socketId] = <<>>]

\* line 278: Array.from(socket.rooms), the rooms in the order they were joined
SocketRooms(s, socketId) == s.sids[socketId]

\* lines 281-290, from the room the loop is at up to its next await: the
\* socket's own room is passed over (line 283); for the first other room
\* user-left is emitted and handleParticipantLeave runs to its await (line 288),
\* where the listener is suspended with the rooms that remain.  No step of
\* the body can throw or reject: socket.to(room).emit queues a packet, and
\* handleParticipantLeave and stopRecording (lines 67-79, 73-97) work on the
\* tables in memory only.
RECURSIVE DisconnectLoop(_, _, _)
DisconnectLoop(s, rooms, socketId) ==
  IF rooms = <<>> THEN [s |-> s, rest |-> <<>>, suspended |-> FALSE]
  ELSE LET room == Head(rooms)
       IN IF room = socketId THEN DisconnectLoop(s, Tail(rooms), socketId)
          ELSE LET s1 == [s EXCEPT !.emits = @ \cup
                            { Packet("user-left", to, room, "", socketId, "", "", s.now) :
                                to \in BroadcastExcept(s.rooms, room, socketId) }]
                   s2 == HandleParticipantLeave(s1, room, socketId)
               IN [s |-> s2, rest |-> Tail(rooms), suspended |-> TRUE]

\* the listener of 'disconnect' as suspended by its loop
DisconnectMicrotask(socketId, loop) ==
  [Microtask(socketId, "", "", "disconnect", IF loop.s.calls # <<>> THEN 2 ELSE 1)
     EXCEPT !.rest = loop.rest]

\* a suspended listener resumes.  join-meeting: lines 118-130, leave-meeting:
\* lines 153-158, both run on the tables as they are now and change none of
\* them; disconnect: the loop goes on with its next room.
Resume ==
  /\ phase \in {"run", "drain"}
  /\ microtasks # <<>>
  /\ LET i == NextMicrotask
         m == microtasks[i]
         rest == [j \in 1..(Len(microtasks) - 1) |->
                    IF j < i THEN microtasks[j] ELSE microtasks[j + 1]]
     IN IF m.pc = "join"
        THEN \E later \in LaterReadings(Server) :
               /\ microtasks' = rest
               /\ phase' = IF rest = <<>> THEN "run" ELSE "drain"
               /\ now' = later
               /\ last' = Turn("join-resumed", m.conn, m.room, m.userName, "",
                               [Server EXCEPT !.emits =
                                  JoinedEmits(Server, connected, m.room, m.conn, m.userName,
                                              later)],
                               FALSE)
               /\ UNCHANGED <<socketRooms, sids, meetingParticipants, activeRecordings,
                              completedRecordings, lastOp, emptySeen>>
        ELSE IF m.pc = "disconnect"
        THEN LET loop == DisconnectLoop(Server, m.rest, m.conn)
                 queue == IF loop.suspended
                          THEN Append(rest, DisconnectMicrotask(m.conn, loop))
                          ELSE rest
             IN /\ Commit(loop.s)
                /\ microtasks' = queue
                /\ phase' = IF queue = <<>> THEN "run" ELSE "drain"
                /\ emptySeen' = [r \in Rooms |->
                                   IF Has(loop.s.mp, r) THEN emptySeen[r] ELSE 0]
                /\ now' = now
                /\ last' = Turn("disconnect-resumed", m.conn, "", "", "", loop.s, FALSE)
        ELSE /\ microtasks' = rest
             /\ phase' = IF rest = <<>> THEN "run" ELSE "drain"
             /\ now' = now
             /\ last' = Turn("leave-resumed", m.conn, m.room, m.userName, "",
                             [Server EXCEPT !.emits =
                                LeftEmits(Server, m.room, m.conn, m.userName)],
                             FALSE)
             /\ UNCHANGED <<socketRooms, sids, meetingParticipants, activeRecordings,
                            completedRecordings, lastOp, emptySeen>>
  /\ UNCHANGED <<connected, closed, files, tasks, handled>>

\* ---------------------------------------------------------- startRecording
StartPcs == {"ensureDir", "writeFile", "opened", "written"}

\* startRecording has returned to its caller.  Under a join-meeting listener
\* handleParticipantJoin returns and lines 118-130 run; a caller that is no
\* listener (conn "") gets the return value and no packet is sent.
StartedEmits(s, t, later) ==
  IF t.conn = "" THEN {}
  ELSE JoinedEmits(s, connected, t.room, t.conn, t.userName, later)

\* the readings of the clock open to lines 118-130 in the turn in which
\* startRecording returns: a caller that is no listener does not read it
StartedReadings(s, t) == IF t.conn = "" THEN {s.now} ELSE LaterReadings(s)

\* (mutant) lines 42-45 are left out: the call never looks for an active recording
EnsureDirDoneIgnoresExisting(t) ==
  /\ Idle
  /\ t \in BagToSet(tasks)
  /\ t.pc = "ensureDir"
  /\ tasks' = (tasks (-) SetToBag({t}))
                (+) SetToBag({Task(t.conn, t.room, t.userName, "writeFile", now)})
  /\ last' = Turn("start-writing", t.conn, t.room, t.userName, "", Server, FALSE)
  /\ UNCHANGED <<connected, closed, socketRooms, sids, meetingParticipants, activeRecordings,
                 completedRecordings, files, microtasks, phase, now, handled, lastOp,
                 emptySeen>>

\* line 39 resolves: ensureRecordingDir found or made the directory.  Lines 42-52
\* run: an existing active recording is returned, else the timestamp is taken and
\* writeFile is started.
EnsureDirDone(t) ==
  /\ Idle
  /\ t \in BagToSet(tasks)
  /\ t.pc = "ensureDir"
  /\ IF Has(activeRecordings, t.room)
     THEN \E later \in StartedReadings(Server, t) :
            LET s == [Server EXCEPT !.emits = StartedEmits(Server, t, later),
                                    !.ret = <<activeRecordings[t.room]>>]
            IN /\ tasks' = tasks (-) SetToBag({t})
               /\ now' = later
               /\ last' = Turn("start-existing", t.conn, t.room, t.userName, "", s, FALSE)
     ELSE /\ tasks' = (tasks (-) SetToBag({t}))
                        (+) SetToBag({Task(t.conn, t.room, t.userName, "writeFile", now)})
          /\ now' = now
          /\ last' = Turn("start-writing", t.conn, t.room, t.userName, "", Server, FALSE)
  /\ UNCHANGED <<connected, closed, socketRooms, sids, meetingParticipants, activeRecordings,
                 completedRecordings, files, microtasks, phase, handled, lastOp, emptySeen>>

\* line 48: the file `${meetingCode}_${timestamp}.mp3`, as the pair it is made of
FilePath(meetingCode, timestamp) == <<meetingCode, timestamp>>

\* line 52, writeFile, in the operating system, while the call is suspended.
\* First the file is opened: it is created, or emptied if it was there, and
\* from then on it is listed in the directory with the time of the open as its
\* mtime.
FileOpened(t) ==
  /\ Idle
  /\ t \in BagToSet(tasks)
  /\ t.pc = "writeFile"
  /\ files' = Put(files, FilePath(t.room, t.timestamp), now)
  /\ tasks' = (tasks (-) SetToBag({t}))
                (+) SetToBag({Task(t.conn, t.room, t.userName, "opened", t.timestamp)})
  /\ last' = Turn("file-opened", t.conn, t.room, t.userName, "", Server, FALSE)
  /\ UNCHANGED <<connected, closed, socketRooms, sids, meetingParticipants, activeRecordings,
                 completedRecordings, microtasks, phase, now, handled, lastOp, emptySeen>>

\* then the text is written to it, which sets its mtime again
FileWritten(t) ==
  /\ Idle
  /\ t \in BagToSet(tasks)
  /\ t.pc = "opened"
  /\ files' = Put(files, FilePath(t.room, t.timestamp), now)
  /\ tasks' = (tasks (-) SetToBag({t}))
                (+) SetToBag({Task(t.conn, t.room, t.userName, "written", t.timestamp)})
  /\ last' = Turn("file-written", t.conn, t.room, t.userName, "", Server, FALSE)
  /\ UNCHANGED <<connected, closed, socketRooms, sids, meetingParticipants, activeRecordings,
                 completedRecordings, microtasks, phase, now, handled, lastOp, emptySeen>>

NewMeta(meetingCode, timestamp) ==
  [meetingCode |-> meetingCode, filePath |-> FilePath(meetingCode, timestamp),
   startedAt |-> timestamp]

\* (mutant) line 66, activeRecordings.set, is left out
WriteFileDoneForgetsSet(t) ==
  /\ Idle
  /\ t \in BagToSet(tasks)
  /\ t.pc = "written"
  /\ \E later \in StartedReadings(Server, t) :
       LET s1 == [Server EXCEPT !.ret = <<NewMeta(t.room, t.timestamp)>>]
           s2 == [s1 EXCEPT !.emits = StartedEmits(s1, t, later)]
       IN /\ Commit(s2)
          /\ now' = later
          /\ last' = Turn("start-done", t.conn, t.room, t.userName, "", s2, FALSE)
  /\ tasks' = tasks (-) SetToBag({t})
  /\ UNCHANGED <<connected, closed, files, microtasks, phase, handled, emptySeen>>

\* lines 60-67: the callback of writeFile; the session becomes the active
\* recording, and the join-meeting handler resumes at line 118
WriteFileDone(t) ==
  /\ Idle
  /\ t \in BagToSet(tasks)
  /\ t.pc = "written"
  /\ \E later \in StartedReadings(Server, t) :
       LET s1 == [Server EXCEPT !.active = Put(activeRecordings, t.room,
                                               NewMeta(t.room, t.timestamp)),
                                 !.ret = <<NewMeta(t.room, t.timestamp)>>]
           s2 == [s1 EXCEPT !.emits = StartedEmits(s1, t, later)]
       IN /\ Commit(s2)
          /\ now' = later
          /\ last' = Turn("start-done", t.conn, t.room, t.userName, "", s2, FALSE)
  /\ tasks' = tasks (-) SetToBag({t})
  /\ UNCHANGED <<connected, closed, files, microtasks, phase, handled, emptySeen>>

\* mkdir (line 29) or writeFile (line 52) rejects, the latter before it opened
\* the file, after it opened it (the file stays, empty) or after it wrote it:
\* startRecording rejects.  A direct caller gets the
\* rejection.  Under a join-meeting handler, handleParticipantJoin rejects at
\* line 62 and the handler at line 116; nothing catches it, lines 118-130 do
\* not run, and the process exits.
StartRecordingFails(t) ==
  /\ Idle
  /\ t \in BagToSet(tasks)
  /\ t.pc \in StartPcs
  /\ IF t.conn = ""
     THEN /\ tasks' = tasks (-) SetToBag({t})
          /\ last' = Turn("start-failed", t.conn, t.room, t.userName, "", Server, TRUE)
          /\ UNCHANGED <<connected, closed, socketRooms, sids, meetingParticipants,
                         activeRecordings, completedRecordings, files, microtasks, phase,
                         now, handled, lastOp, emptySeen>>
     ELSE ProcessExit(Turn("start-failed", t.conn, t.room, t.userName, "", Server, TRUE))

\* ------------------------------------------- the service, called directly
\* startRecording(meetingCode) called by a caller that is no socket handler: the
\* call runs to its first await (line 39) and is resumed by EnsureDirDone,
\* WriteFileDone or StartRecordingFails like any other; with no socket to
\* resume, those turns send no packet
StartRecordingCall(meetingCode, max) ==
  /\ Idle
  /\ handled < max
  /\ handled' = handled + 1
  /\ LET s == [Server EXCEPT !.calls = <<Call("start", Server, meetingCode)>>]
     IN /\ lastOp' = NextLastOp(s)
        /\ last' = Turn("startRecording", "", meetingCode, "", "", s, FALSE)
  /\ tasks' = tasks (+) SetToBag({Task("", meetingCode, "", "ensureDir", 0)})
  /\ UNCHANGED <<connected, closed, socketRooms, sids, meetingParticipants, activeRecordings,
                 completedRecordings, files, microtasks, phase, now, emptySeen>>

\* stopRecording(meetingCode) called directly (lines 73-97)
StopRecordingCall(meetingCode, max) ==
  /\ Idle
  /\ handled < max
  /\ handled' = handled + 1
  /\ LET s0 == [Server EXCEPT !.calls = <<Call("stop", Server, meetingCode)>>]
         s1 == StopRecording(s0, meetingCode)
     IN /\ Commit(s1)
        /\ last' = Turn("stopRecording", "", meetingCode, "", "", s1, FALSE)
  /\ UNCHANGED <<connected, closed, files, tasks, microtasks, phase, now, emptySeen>>

\* Date.now() reads another value from here on
ClockJump(reading) ==
  /\ Idle
  /\ reading # now
  /\ now' = reading
  /\ last' = Turn("clock", "", "", "", "", Server, FALSE)
  /\ UNCHANGED <<connected, closed, socketRooms, sids, meetingParticipants, activeRecordings,
                 completedRecordings, files, tasks, microtasks, phase, handled, lastOp,
                 emptySeen>>

\* the pairs <<p, c>> of meeting codes in use with p + "_" a prefix of c
CodePrefixes == {<<"A", "A_1">>}

\* line 123: file.startsWith(`${meetingCode}_`) && file.endsWith('.mp3')
Matches(file, meetingCode) ==
  \/ file[1] = meetingCode
  \/ <<meetingCode, file[1]>> \in CodePrefixes

\* a call of getLatestRecordingForMeeting suspended in its scan.  found maps
\* the file names the call holds to the mtime it has read for each, as <<mtime>>,
\* or to NoStat for a file whose stat has not been carried out.
NoStat == <<>>

ScanTask(meetingCode, pc, found) ==
  [conn |-> "", room |-> meetingCode, userName |-> "", pc |-> pc, timestamp |-> 0,
   found |-> found]

ScanPcs == {"access", "readdir", "listed", "stat"}

\* the file-system call the scan is suspended on has not yet been carried out
\* (ensureRecordingDir, readdir, one of the stat calls), so that it can fail
ScanCanFail(t) ==
  \/ t.pc \in {"access", "readdir"}
  \/ t.pc = "stat" /\ \E f \in DOMAIN t.found : t.found[f] = NoStat

\* lines 135-142: the file with the latest mtime among those read, as a record
\* whose startedAt and endedAt are both that mtime and whose durationSeconds
\* is undefined.  Among files of equal mtime the sort keeps the order of the
\* listing, which is the operating system's: any of them may come first.
ScanLatest(found, meetingCode) ==
  { [meetingCode |-> meetingCode, filePath |-> f, startedAt |-> found[f][1],
     endedAt |-> found[f][1]] :
      f \in {g \in DOMAIN found : \A h \in DOMAIN found : found[h][1] <= found[g][1]} }

\* getLatestRecordingForMeeting up to its first await (lines 103-119): the last
\* entry of the history, else the active recording, are returned at once; else
\* the call is suspended in ensureRecordingDir
GetLatestRecordingForMeeting(meetingCode, max) ==
  /\ Idle
  /\ LET history == completedRecordings[meetingCode]
     IN IF Len(history) > 0 \/ Has(activeRecordings, meetingCode)
        THEN /\ last' = Turn("getLatestRecordingForMeeting", "", meetingCode, "", "",
                             [Server EXCEPT !.ret =
                                IF Len(history) > 0 THEN <<history[Len(history)]>>
                                ELSE <<activeRecordings[meetingCode]>>], FALSE)
             /\ UNCHANGED <<tasks, handled>>
        ELSE /\ handled < max
             /\ handled' = handled + 1
             /\ tasks' = tasks (+) SetToBag({ScanTask(meetingCode, "access", EmptyMap)})
             /\ last' = Turn("scan-started", "", meetingCode, "", "", Server, FALSE)
  /\ UNCHANGED <<connected, closed, socketRooms, sids, meetingParticipants, activeRecordings,
                 completedRecordings, files, microtasks, phase, now, lastOp, emptySeen>>

\* a step of a scan that changes nothing but the call itself
ScanStep(t, pc, found, op) ==
  /\ tasks' = (tasks (-) SetToBag({t})) (+) SetToBag({ScanTask(t.room, pc, found)})
  /\ last' = Turn(op, "", t.room, "", "", Server, FALSE)
  /\ UNCHANGED <<connected, closed, socketRooms, sids, meetingParticipants, activeRecordings,
                 completedRecordings, files, microtasks, phase, now, handled, lastOp,
                 emptySeen>>

\* what a scan returns (<<>> for null), which ends the call
ScanReturns(t, ret, op) ==
  /\ tasks' = tasks (-) SetToBag({t})
  /\ last' = Turn(op, "", t.room, "", "", [Server EXCEPT !.ret = ret], FALSE)
  /\ UNCHANGED <<connected, closed, socketRooms, sids, meetingParticipants, activeRecordings,
                 completedRecordings, files, microtasks, phase, now, handled, lastOp,
                 emptySeen>>

\* line 119 resolves: the directory is there, and readdir is started
ScanDirReady(t) ==
  /\ Idle
  /\ t \in BagToSet(tasks)
  /\ t.pc = "access"
  /\ ScanStep(t, "readdir", EmptyMap, "scan-readdir")

\* line 120, in the operating system: the directory is read, as it is now
ScanDirListed(t) ==
  /\ Idle
  /\ t \in BagToSet(tasks)
  /\ t.pc = "readdir"
  /\ ScanStep(t, "listed", [f \in DOMAIN files |-> NoStat], "scan-listed")

\* line 120 resolves with that listing; the files of it that match (lines
\* 122-123) are sent to stat, and with none the call returns null (line 132)
ScanReaddirDone(t) ==
  /\ Idle
  /\ t \in BagToSet(tasks)
  /\ t.pc = "listed"
  /\ LET matching == {f \in DOMAIN t.found : Matches(f, t.room)}
     IN IF matching = {}
        THEN ScanReturns(t, <<>>, "scan-done")
        ELSE ScanStep(t, "stat", [f \in matching |-> NoStat], "scan-stat")

\* line 126, in the operating system: one of the stat calls is carried out and
\* reads the mtime the file has now
ScanStatRead(t, f) ==
  /\ Idle
  /\ t \in BagToSet(tasks)
  /\ t.pc = "stat"
  /\ f \in DOMAIN t.found
  /\ t.found[f] = NoStat
  /\ ScanStep(t, "stat", [t.found EXCEPT ![f] = <<files[f]>>], "scan-stat-read")

\* every stat call of lines 124-128 has resolved; lines 135-142 return
ScanStatDone(t) ==
  /\ Idle
  /\ t \in BagToSet(tasks)
  /\ t.pc = "stat"
  /\ \A f \in DOMAIN t.found : t.found[f] # NoStat
  /\ \E meta \in ScanLatest(t.found, t.room) : ScanReturns(t, <<meta>>, "scan-done")

\* lines 143-146: mkdir, readdir or stat rejected; the call logs and returns null
ScanFails(t) ==
  /\ Idle
  /\ t \in BagToSet(tasks)
  /\ t.pc \in ScanPcs
  /\ ScanCanFail(t)
  /\ ScanReturns(t, <<>>, "scan-failed")

\* the process is stopped and started again over the same directory.  Every
\* connection closes; the tables of recording.service.ts (lines 19-20), the
\* table of socket.ts (line 52) and the rooms of the adapter are new and
\* empty; the calls in flight and the suspended listeners are gone.  The files
\* and the clock are the operating system's and stay.
Restart(max) ==
  /\ phase = "exit" \/ Idle
  /\ handled < max
  /\ handled' = handled + 1
  /\ connected' = {}
  /\ closed' = closed \cup connected
  /\ socketRooms' = [r \in RoomNames |-> {}]
  /\ sids' = [c \in Conns |-> <<>>]
  /\ meetingParticipants' = EmptyMap
  /\ activeRecordings' = EmptyMap
  /\ completedRecordings' = [r \in Rooms |-> <<>>]
  /\ tasks' = EmptyBag
  /\ microtasks' = <<>>
  /\ phase' = "run"
  /\ lastOp' = [r \in Rooms |-> "none"]
  /\ emptySeen' = [r \in Rooms |-> 0]
  /\ last' = Turn("restart", "", "", "", "", Server, FALSE)
  /\ UNCHANGED <<files, now>>

\* ----------------------------------------------------------- leave-meeting
\* lines 141-151: the listener up to its await.  handleParticipantLeave runs
\* through stopRecording before it awaits, so the tables are final here; the
\* listener resumes after one hop, or after two when stopRecording was awaited.
LeaveMeeting(c, meetingCode, userName, max) ==
  /\ c \in connected
  /\ BatchOpen(c)
  /\ handled < max
  /\ handled' = handled + 1
  /\ IF Falsy(meetingCode)                                      \* line 144
     THEN /\ last' = Turn("leave-meeting", c, meetingCode, userName, "", Server, FALSE)
          /\ UNCHANGED <<socketRooms, sids, meetingParticipants, activeRecordings,
                         completedRecordings, microtasks, lastOp, emptySeen>>
     ELSE LET s0 == SocketLeave(Server, c, meetingCode)             \* line 149
              s1 == HandleParticipantLeave(s0, meetingCode, c)
              hops == IF s1.calls # <<>> THEN 2 ELSE 1
          IN /\ Commit(s1)
             /\ microtasks' = Append(microtasks,
                                     Microtask(c, meetingCode, userName, "leave", hops))
             /\ emptySeen' = [r \in Rooms |-> IF Has(s1.mp, r) THEN emptySeen[r] ELSE 0]
             /\ last' = Turn("leave-meeting", c, meetingCode, userName, "", s1, FALSE)
  /\ UNCHANGED <<connected, closed, files, tasks, now, phase>>

\* -------------------------------------------------------------- disconnect
\* the connection closes: Socket.IO empties socket.rooms, then the listener of
\* 'disconnect' (lines 274-291) runs up to the first await of its loop
Disconnect(c, max) ==
  /\ Idle
  /\ c \in connected
  /\ handled < max
  /\ handled' = handled + 1
  /\ connected' = connected \ {c}
  /\ closed' = closed \cup {c}
  /\ LET s0 == LeaveAll(Server, c)
         loop == DisconnectLoop(s0, SocketRooms(s0, c), c)
     IN /\ Commit(loop.s)
        /\ microtasks' = IF loop.suspended
                         THEN Append(microtasks, DisconnectMicrotask(c, loop))
                         ELSE microtasks
        /\ phase' = IF loop.suspended THEN "drain" ELSE phase
        /\ emptySeen' = [r \in Rooms |-> IF Has(loop.s.mp, r) THEN emptySeen[r] ELSE 0]
        /\ last' = Turn("disconnect", c, "", "", "", loop.s, FALSE)
  /\ UNCHANGED <<files, tasks, now>>

\* ------------------------------------------- send-message / reaction / hand
\* (mutant) the test of the message / reaction itself is left out
ContentValidWithoutBody(meetingCode, body, sender) ==
  ~(Falsy(meetingCode) \/ Falsy(sender))

\* line 171 and line 197
ContentValid(meetingCode, body, sender) ==
  ~(Falsy(meetingCode) \/ Falsy(body) \/ Falsy(sender))

\* line 251
RaiseHandValid(meetingCode, userName) == ~(Falsy(meetingCode) \/ Falsy(userName))

\* (mutant) the payload's own timestamp is passed on
EmissionTimestampFromClient(serverNow, clientTimestamp) == clientTimestamp

\* line 261: timestamp: new Date().toISOString(); the payload's timestamp is
\* not among the fields the handler takes from it (line 249)
EmissionTimestamp(serverNow, clientTimestamp) == serverNow

Fanout(event, meetingCode, userName, body, timestamp) ==
  { Packet(event, to, meetingCode, meetingCode, "", userName, body, timestamp) :
      to \in BroadcastAll(socketRooms, meetingCode) }

Answer(op, c, meetingCode, userName, body, emits) ==
  /\ last' = Turn(op, c, meetingCode, userName, body, [Server EXCEPT !.emits = emits], FALSE)
  /\ UNCHANGED <<connected, closed, socketRooms, sids, meetingParticipants, activeRecordings,
                 completedRecordings, files, tasks, microtasks, phase, now, handled,
                 lastOp, emptySeen>>

SendMessage(c, meetingCode, message, sender) ==
  /\ c \in connected
  /\ BatchOpen(c)
  /\ Answer("send-message", c, meetingCode, sender, message,
            IF ContentValid(meetingCode, message, sender)
            THEN Fanout("message-received", meetingCode, sender, message, now)
            ELSE ErrorEmit(connected, c, "meetingCode, message, and sender are required"))

SendReaction(c, meetingCode, reaction, sender) ==
  /\ c \in connected
  /\ BatchOpen(c)
  /\ Answer("send-reaction", c, meetingCode, sender, reaction,
            IF ContentValid(meetingCode, reaction, sender)
            THEN Fanout("reaction-received", meetingCode, sender, reaction, now)
            ELSE ErrorEmit(connected, c, "meetingCode, reaction, and sender are required"))

\* lines 222-239: the listener tests its fields and logs; it sends nothing
MediaStateChanged(c, meetingCode, userName) ==
  /\ c \in connected
  /\ BatchOpen(c)
  /\ Answer("media-state-changed", c, meetingCode, userName, "", {})

\* lines 249-263: what the listener of raise-hand sends for a payload
RaiseHandEmits(c, meetingCode, userName, isRaised, clientTimestamp) ==
  IF RaiseHandValid(meetingCode, userName)
  THEN Fanout("raise-hand-updated", meetingCode, userName, isRaised,
              EmissionTimestamp(now, clientTimestamp))
  ELSE ErrorEmit(connected, c, "meetingCode and userName are required")

RaiseHand(c, meetingCode, userName, isRaised, clientTimestamp) ==
  /\ c \in connected
  /\ BatchOpen(c)
  /\ Answer("raise-hand", c, meetingCode, userName, isRaised,
            RaiseHandEmits(c, meetingCode, userName, isRaised, clientTimestamp))

\* the membership events and what they set off
Lifecycle(max) ==
  \/ \E c \in Conns : Connect(c)
  \/ \E c \in Conns, m \in Codes, u \in Names : JoinMeeting(c, m, u, max)
  \/ \E t \in BagToSet(tasks) : EnsureDirDone(t)
  \/ \E t \in BagToSet(tasks) : FileOpened(t)
  \/ \E t \in BagToSet(tasks) : FileWritten(t)
  \/ \E t \in BagToSet(tasks) : WriteFileDone(t)
  \/ \E t \in BagToSet(tasks) : StartRecordingFails(t)
  \/ \E c \in Conns, m \in Codes, u \in Names : LeaveMeeting(c, m, u, max)
  \/ Resume
  \/ \E c \in Conns : Disconnect(c, max)
  \/ \E c \in Conns, e \in AsyncEvents \cup SyncEvents : NoPayload(c, e)
  \/ Tick

Chat ==
  \/ \E c \in Conns, m \in Codes, x \in Texts, u \in Names : SendMessage(c, m, x, u)
  \/ \E c \in Conns, m \in Codes, x \in Texts, u \in Names : SendReaction(c, m, x, u)
  \/ \E c \in Conns, m \in Codes, u \in Names, b \in BOOLEAN, ts \in ClientTimestamps :
       RaiseHand(c, m, u, b, ts)
  \/ \E c \in Conns, m \in Codes, u \in Names : MediaStateChanged(c, m, u)

Next == Lifecycle(MaxChanges)

Spec == Init /\ [][Next]_vars

NextChat == Lifecycle(MaxChatChanges) \/ Chat

SpecChat == Init /\ [][NextChat]_vars

\* The chat events with well-formed payloads (no field empty) over the
\* membership events, far enough for a meeting to have two participants
ValidCodes == {m \in Codes : ~Falsy(m)}
ValidNames == {u \in Names : ~Falsy(u)}
ValidTexts == {x \in Texts : ~Falsy(x)}

NextChatRoom ==
  \/ Lifecycle(MaxRoomChanges)
  \/ \E c \in Conns, m \in ValidCodes, x \in ValidTexts, u \in ValidNames :
       SendMessage(c, m, x, u)
  \/ \E c \in Conns, m \in ValidCodes, x \in ValidTexts, u \in ValidNames :
       SendReaction(c, m, x, u)
  \/ \E c \in Conns, m \in ValidCodes, u \in ValidNames, b \in BOOLEAN,
        ts \in ClientTimestamps :
       RaiseHand(c, m, u, b, ts)

SpecChatRoom == Init /\ [][NextChatRoom]_vars
\* ================================================================ properties
MembersOf(mp, r) == IF Has(mp, r) THEN mp[r] ELSE {}
Members(r) == MembersOf(meetingParticipants, r)
PendingStart(r) == \E t \in BagToSet(tasks) : t.room = r /\ t.pc \in StartPcs
Issued(turn, op, r) ==
  {i \in 1..Len(turn.calls) : turn.calls[i].op = op /\ turn.calls[i].room = r}
Delivered(turn, events) == {p \in turn.emits : p.event \in events}
Running == phase # "exit"

\* The recording service on its own, under any sequence of calls, overlapping
\* ones included
NextRecording ==
  \/ \E r \in RecordingCodes : StartRecordingCall(r, MaxCalls)
  \/ \E r \in RecordingCodes : StopRecordingCall(r, MaxCalls)
  \/ \E t \in BagToSet(tasks) : EnsureDirDone(t)
  \/ \E t \in BagToSet(tasks) : FileOpened(t)
  \/ \E t \in BagToSet(tasks) : FileWritten(t)
  \/ \E t \in BagToSet(tasks) : WriteFileDone(t)
  \/ \E t \in BagToSet(tasks) : StartRecordingFails(t)
  \/ Tick

SpecRecording == Init /\ [][NextRecording]_vars

\* The calls for one meeting under a wall clock that is not monotonic
NextRecordingClock ==
  \/ StartRecordingCall("A", MaxCalls)
  \/ StopRecordingCall("A", MaxCalls)
  \/ \E t \in BagToSet(tasks) : EnsureDirDone(t)
  \/ \E t \in BagToSet(tasks) : FileOpened(t)
  \/ \E t \in BagToSet(tasks) : FileWritten(t)
  \/ \E t \in BagToSet(tasks) : WriteFileDone(t)
  \/ \E t \in BagToSet(tasks) : StartRecordingFails(t)
  \/ \E reading \in ClockReadings : ClockJump(reading)

SpecRecordingClock == Init /\ [][NextRecordingClock]_vars

\* The service with the calls that look a recording up, over a directory that
\* outlives the process and under a clock that runs on and can be set
NextRecordingScan ==
  \/ \E r \in RecordingCodes : StartRecordingCall(r, MaxScanCalls)
  \/ \E r \in RecordingCodes : StopRecordingCall(r, MaxScanCalls)
  \/ \E t \in BagToSet(tasks) : EnsureDirDone(t)
  \/ \E t \in BagToSet(tasks) : FileOpened(t)
  \/ \E t \in BagToSet(tasks) : FileWritten(t)
  \/ \E t \in BagToSet(tasks) : WriteFileDone(t)
  \/ \E t \in BagToSet(tasks) : StartRecordingFails(t)
  \/ Tick
  \/ \E r \in RecordingCodes : GetLatestRecordingForMeeting(r, MaxScanCalls)
  \/ \E t \in BagToSet(tasks) : ScanDirReady(t)
  \/ \E t \in BagToSet(tasks) : ScanDirListed(t)
  \/ \E t \in BagToSet(tasks) : ScanReaddirDone(t)
  \/ \E t \in BagToSet(tasks), f \in DOMAIN files : ScanStatRead(t, f)
  \/ \E t \in BagToSet(tasks) : ScanStatDone(t)
  \/ \E t \in BagToSet(tasks) : ScanFails(t)
  \/ \E reading \in ClockReadings : ClockJump(reading)
  \/ Restart(MaxScanCalls)

SpecRecordingScan == Init /\ [][NextRecordingScan]_vars

\* C1: no startRecording call is issued for a meeting that has an active
\* recording at that moment.
NoStartWhileActive ==
  \A i \in 1..Len(last.calls) :
    last.calls[i].op = "start" => ~last.calls[i].activeBefore

\* C2: while the server runs, a stopRecording call is issued exactly in the
\* turn in which the meeting's participant set goes from non-empty to empty, a
\* startRecording call was the last call issued for it before, and so the calls
\* of a meeting alternate start, stop, start, ...
StopBracketsOccupancy ==
  [][Running' => \A r \in Rooms :
       /\ Issued(last', "stop", r) # {}
            <=> (MembersOf(meetingParticipants, r) # {}
                 /\ MembersOf(meetingParticipants', r) = {})
       /\ Issued(last', "stop", r) # {} => lastOp[r] = "start"
       /\ Issued(last', "start", r) # {} => lastOp[r] \in {"none", "stop"}
       /\ Cardinality(Issued(last', "stop", r) \cup Issued(last', "start", r)) <= 1]_vars

StopBracketsOccupancyWitness ==
  \E r \in Rooms :
    /\ last.op = "leave-meeting"
    /\ last.calls = <<[op |-> "stop", room |-> r, activeBefore |-> TRUE]>>
    /\ Len(completedRecordings[r]) = 1
    /\ Members(r) = {}

\* C3: once the last participant has left and no startRecording call for the
\* meeting is pending, the meeting has no active recording and every session
\* started for it is in the completed history.
EmptyRoomIsFinalized ==
  \A r \in Rooms :
    (lastOp[r] = "stop" /\ Members(r) = {} /\ ~PendingStart(r))
      => /\ ~Has(activeRecordings, r)
         /\ \A f \in DOMAIN files :
              f[1] = r => \E i \in 1..Len(completedRecordings[r]) :
                             completedRecordings[r][i].filePath = f

\* C4: when joins of different sockets race on an empty meeting, exactly one of
\* them sees the meeting empty and exactly one startRecording call is issued.
RacingJoinsStartOnce ==
  \A r \in Rooms : Cardinality(Members(r)) >= 2 => emptySeen[r] = 1

RacingJoinsStartOnceWitness ==
  \E r \in Rooms :
    /\ last.op = "join-meeting"
    /\ last.room = r
    /\ Cardinality(Members(r)) = 2
    /\ \E t \in BagToSet(tasks) : t.room = r /\ t.conn # last.conn
    /\ emptySeen[r] = 1

\* C5: a join-meeting of a socket that is already a participant of the meeting
\* leaves the participant set as it is and issues no startRecording call.
RejoinIsIdempotent ==
  [][\A c \in Conns, r \in Rooms :
       (/\ last'.op = "join-meeting"
        /\ last'.conn = c
        /\ last'.room = r
        /\ last'.userName # ""
        /\ c \in MembersOf(meetingParticipants, r))
         => /\ meetingParticipants' = meetingParticipants
            /\ Cardinality(MembersOf(meetingParticipants', r))
                 = Cardinality(MembersOf(meetingParticipants, r))
            /\ last'.calls = <<>>
            /\ emptySeen' = emptySeen]_vars

RejoinIsIdempotentWitness ==
  /\ last.op = "join-meeting"
  /\ last.room \in Rooms
  /\ last.userName # ""
  /\ Members(last.room) = {last.conn}
  /\ last.calls = <<>>
  /\ emptySeen[last.room] = 1

\* C6: a socket that disconnects is removed from the participant set of every
\* meeting it had joined, and exactly one stopRecording call is issued for each
\* meeting it was the only participant of.
DisconnectCleansAllRooms ==
  [][\A c \in Conns :
       (last'.op = "disconnect" /\ c \in connected /\ c \notin connected')
         => \A r \in Rooms :
              /\ c \notin MembersOf(meetingParticipants', r)
              /\ MembersOf(meetingParticipants, r) = {c}
                   => Cardinality(Issued(last', "stop", r)) = 1]_vars
\* C7: user-joined and user-left never reach the socket that joined or left, and
\* reach every other connected participant of the meeting when they are
\* emitted.
PresenceTurn ==
  /\ last.op \in {"start-existing", "start-done", "join-resumed", "leave-resumed"}
  /\ last.conn # ""

PresenceReachesOthersOnly ==
  LET presence == Delivered(last, {"user-joined", "user-left"})
  IN /\ \A p \in presence : p.socketId = last.conn /\ p.to # last.conn
     /\ PresenceTurn =>
          /\ presence # {} => \E e \in {"user-joined", "user-left"} :
                                \A p \in presence : p.event = e
          /\ (Members(last.room) \cap connected) \ {last.conn}
                \subseteq {p.to : p \in presence}

\* C8: when the startRecording call of a first join fails, the failure stays
\* inside the join handler and the joining socket, if still connected, is sent
\* joined-meeting.
StartFailureIsSwallowed ==
  last.op = "start-failed"
    => /\ ~last.rejected
       /\ Running
       /\ last.conn \in connected
            => \E p \in last.emits : p.event = "joined-meeting" /\ p.to = last.conn

\* C9: a join into a meeting that has a participant issues no startRecording
\* call, and a leave or disconnect that leaves a participant in the meeting
\* issues no stopRecording call.
NoCallWithoutEdge ==
  [][\A r \in Rooms :
       /\ (last'.op = "join-meeting" /\ MembersOf(meetingParticipants, r) # {})
            => Issued(last', "start", r) = {}
       /\ (last'.op \in {"leave-meeting", "disconnect"}
             /\ MembersOf(meetingParticipants', r) # {})
            => Issued(last', "stop", r) = {}]_vars

NoCallWithoutEdgeWitness ==
  /\ last.op = "leave-meeting"
  /\ last.room \in Rooms
  /\ Members(last.room) # {}
  /\ last.conn \notin Members(last.room)
  /\ emptySeen[last.room] = 1
  /\ \E i \in 1..Len(microtasks) :
       microtasks[i].pc = "leave" /\ microtasks[i].conn = last.conn
  /\ last.calls = <<>>

\* C10: send-message, send-reaction and raise-hand with an empty meeting code,
\* an empty sender or (chat, reaction) an empty text are answered with one error
\* packet to the sending socket, and nothing is delivered to anyone else.
InvalidChatPayload ==
  \/ /\ last.op \in {"send-message", "send-reaction"}
     /\ (last.room = "" \/ last.userName = "" \/ last.body = "")
  \/ /\ last.op = "raise-hand"
     /\ (last.room = "" \/ last.userName = "")

InvalidChatIsRejected ==
  InvalidChatPayload
    => /\ \E p \in last.emits : p.event = "error" /\ p.to = last.conn
       /\ \A p \in last.emits : p.event = "error" /\ p.to = last.conn

InvalidChatIsRejectedWitness ==
  /\ last.op = "send-message"
  /\ last.room \in Rooms
  /\ last.userName # ""
  /\ last.body = ""
  /\ Cardinality(socketRooms[last.room]) = 2
  /\ Cardinality(last.emits) = 1
\* C11: a join-meeting with an empty meeting code or an empty user name is
\* answered with one error packet to the sender and changes nothing: not the
\* participant table, the Socket.IO rooms or the recordings, and no
\* startRecording call is issued or left pending.
InvalidJoinIsRejected ==
  [][(last'.op = "join-meeting" /\ (last'.room = "" \/ last'.userName = ""))
       => /\ \E p \in last'.emits : p.event = "error" /\ p.to = last'.conn
          /\ \A p \in last'.emits : p.event = "error" /\ p.to = last'.conn
          /\ last'.calls = <<>>
          /\ UNCHANGED <<meetingParticipants, socketRooms, sids, activeRecordings,
                         completedRecordings, files, tasks, microtasks, lastOp>>]_vars

InvalidJoinIsRejectedWitness ==
  /\ last.op = "join-meeting"
  /\ last.room \in Rooms
  /\ last.userName = ""
  /\ last.conn \notin Members(last.room)
  /\ Members(last.room) # {}
  /\ Cardinality(last.emits) = 1

\* C12 (as claimed): a valid send-message, send-reaction or raise-hand naming a
\* meeting is delivered to every socket in the meeting and to the sender.
ValidChatTurn ==
  \/ /\ last.op \in {"send-message", "send-reaction"}
     /\ last.room # "" /\ last.userName # "" /\ last.body # ""
  \/ /\ last.op = "raise-hand"
     /\ last.room # "" /\ last.userName # ""

ChatEventOf(op) ==
  CASE op = "send-message" -> "message-received"
    [] op = "send-reaction" -> "reaction-received"
    [] op = "raise-hand" -> "raise-hand-updated"

ChatReachesRoomAndSender ==
  ValidChatTurn
    => socketRooms[last.room] \cup (Members(last.room) \cap connected) \cup {last.conn}
         \subseteq {p.to : p \in Delivered(last, {ChatEventOf(last.op)})}

\* C12 (amended): it is delivered, with the payload sent, to exactly the
\* sockets that are in the Socket.IO room named by the meeting code when it is
\* emitted.  Every connected participant of the meeting is among them, and
\* beyond the participants at most the socket whose own id is the meeting
\* code; the sender receives it exactly when it is itself in that room.
ChatReachesRoom ==
  ValidChatTurn
    => LET recipients == {p.to : p \in last.emits}
           participants == Members(last.room) \cap connected
       IN /\ recipients = socketRooms[last.room]
          /\ participants \subseteq recipients
          /\ recipients \subseteq participants \cup ({last.room} \cap connected)
          /\ last.conn \in recipients <=> last.conn \in socketRooms[last.room]
          /\ \A p \in last.emits :
               /\ p.event = ChatEventOf(last.op)
               /\ p.meetingCode = last.room
               /\ p.userName = last.userName
               /\ p.body = last.body

\* a message sent by one of the two participants of a meeting whose code is
\* no socket's id reaches both of them
ChatReachesRoomWitness ==
  /\ last.op = "send-message"
  /\ ValidChatTurn
  /\ last.room \notin Conns
  /\ Members(last.room) = Conns
  /\ connected = Conns
  /\ {p.to : p \in last.emits} = Conns
\* C15: a leave-meeting whose sender is not a participant of the meeting it
\* names (the meeting being tracked or not) changes neither the participant
\* table nor the recordings, issues no recording call, and delivers no packet
\* to any socket: if the listener is left to resume at all, the user-left it
\* then emits has no one to go to.
NonMemberLeaveIsSilent ==
  [][(last'.op = "leave-meeting" /\ last'.conn \notin Members(last'.room))
       => /\ last'.emits = {}
          /\ last'.calls = <<>>
          /\ UNCHANGED <<meetingParticipants, activeRecordings,
                         completedRecordings>>
          /\ microtasks' # microtasks
               => BroadcastExcept(socketRooms', last'.room, last'.conn) = {}]_vars

\* the meetings a socket is a participant of
JoinedBy(c) == {r \in Rooms : c \in Members(r)}

\* C17: when a socket disconnects, every other connected participant of each
\* meeting it was in is sent user-left carrying the socket's id, and the
\* disconnected socket is sent nothing.
DisconnectNotifiesRemaining ==
  [][last'.op = "disconnect"
       => /\ \A r \in JoinedBy(last'.conn) :
               \A m \in (Members(r) \cap connected') \ {last'.conn} :
                 \E p \in last'.emits :
                   /\ p.event = "user-left"
                   /\ p.to = m
                   /\ p.room = r
                   /\ p.socketId = last'.conn
          /\ \A p \in last'.emits : p.to # last'.conn]_vars

\* C18: while the server runs, the participant set of a meeting changes only
\* in the turn in which the listener of a join-meeting or leave-meeting naming
\* it is called, and then by exactly that event: a valid join adds its sender,
\* a leave removes its sender. Every other turn, the resumption of a listener
\* or of a pending startRecording included, leaves the set as it is, so the
\* set is at all times the sockets whose latest handled event for the meeting
\* was a join.
JoinsAndLeavesApplyInOrder ==
  [][Running' => \A r \in Rooms :
       MembersOf(meetingParticipants', r) =
         CASE last'.op = "join-meeting" /\ last'.room = r /\ last'.userName # ""
                -> Members(r) \cup {last'.conn}
           [] last'.op = "leave-meeting" /\ last'.room = r
                -> Members(r) \ {last'.conn}
           [] OTHER -> Members(r)]_vars

JoinsAndLeavesApplyInOrderWitness ==
  \E r \in Rooms :
    /\ last.op = "leave-meeting"
    /\ last.room = r
    /\ Members(r) # {}
    /\ last.conn \notin Members(r)
    /\ \E t \in BagToSet(tasks) : t.room = r /\ t.conn = last.conn

\* C19: the listener of a valid join-meeting into a meeting that has a
\* participant and a startRecording call still pending puts the sender in the
\* participant set and awaits no startRecording: it is left to resume after
\* one hop, and when it resumes, pending calls or not, joined-meeting is sent
\* to the sender.
SecondJoinDoesNotWait ==
  [][/\ \A r \in Rooms :
          (/\ last'.op = "join-meeting"
           /\ last'.room = r
           /\ last'.userName # ""
           /\ PendingStart(r)
           /\ Members(r) # {})
            => /\ last'.conn \in MembersOf(meetingParticipants', r)
               /\ tasks' = tasks
               /\ microtasks' = Append(microtasks,
                                       Microtask(last'.conn, r, last'.userName, "join", 1))
     /\ last'.op = "join-resumed"
          => /\ \E p \in last'.emits : p.event = "joined-meeting" /\ p.to = last'.conn
             /\ tasks' = tasks]_vars

SecondJoinDoesNotWaitWitness ==
  \E r \in Rooms :
    /\ last.op = "join-resumed"
    /\ last.room = r
    /\ Members(r) = Conns
    /\ \E t \in BagToSet(tasks) : t.room = r /\ t.conn # last.conn /\ t.pc \in StartPcs
    /\ \E p \in last.emits : p.event = "joined-meeting" /\ p.to = last.conn
    /\ \E p \in last.emits : p.event = "user-joined" /\ p.to # last.conn

\* C20: every key of the participant table maps to a non-empty set, so a
\* meeting code is a key exactly when the meeting has a participant.
NoEmptyParticipantSet ==
  \A r \in DOMAIN meetingParticipants : meetingParticipants[r] # {}

NoEmptyParticipantSetWitness ==
  \E r \in Rooms :
    /\ last.op = "leave-meeting"
    /\ last.room = r
    /\ lastOp[r] = "stop"
    /\ ~Has(meetingParticipants, r)
    /\ DOMAIN meetingParticipants # {}
\* C13: a startRecording call that completes while the meeting has an active
\* recording (one made by another call, and not stopped since) returns that
\* recording, and creates neither a second recording nor a second file.
StartsShareOneSession ==
  [][/\ (last'.op \in {"start-existing", "start-done"}
           /\ Has(activeRecordings, last'.room))
          => /\ last'.ret = <<activeRecordings[last'.room]>>
             /\ UNCHANGED <<activeRecordings, files>>
     /\ (last'.op \in {"file-opened", "file-written"}
           /\ Has(activeRecordings, last'.room))
          => UNCHANGED files]_vars

\* C14: a startRecording call that finds an active recording for its meeting
\* returns it, and a stopRecording call for a meeting with no active recording
\* returns null; both leave the active table, the history and the files as
\* they are.
RedundantCallsChangeNothing ==
  [][/\ (last'.op \in {"start-existing", "start-writing"}
           /\ Has(activeRecordings, last'.room))
          => /\ last'.op = "start-existing"
             /\ last'.ret = <<activeRecordings[last'.room]>>
             /\ UNCHANGED <<activeRecordings, completedRecordings, files>>
     /\ (last'.op = "stopRecording" /\ ~Has(activeRecordings, last'.room))
          => /\ last'.ret = <<>>
             /\ UNCHANGED <<activeRecordings, completedRecordings, files>>]_vars

RedundantCallsChangeNothingWitness ==
  /\ last.op = "stopRecording"
  /\ last.ret = <<>>
  /\ ~last.calls[1].activeBefore
  /\ Len(completedRecordings[last.room]) = 1
  /\ tasks = EmptyBag
  /\ handled = 3
\* C21: the history of a meeting changes only by one entry being appended at
\* its end, and its entries are in non-decreasing order of startedAt.
IsPrefix(s, u) == Len(s) <= Len(u) /\ SubSeq(u, 1, Len(s)) = s

OrderedByStart(h) ==
  \A i \in 1..Len(h), j \in 1..Len(h) : i < j => h[i].startedAt <= h[j].startedAt

HistoryAppendOnlyOrdered ==
  [][\A r \in Rooms :
       /\ IsPrefix(completedRecordings[r], completedRecordings'[r])
       /\ Len(completedRecordings'[r]) <= Len(completedRecordings[r]) + 1
       /\ OrderedByStart(completedRecordings'[r])]_vars

\* C22: what getLatestRecordingForMeeting returns, at once or after its scan,
\* is null or a finalized session, one that has an endedAt; it is never the
\* meeting's active recording.
LatestIsFinalized ==
  (last.op \in {"getLatestRecordingForMeeting", "scan-done"} /\ last.ret # <<>>)
    => /\ "endedAt" \in DOMAIN last.ret[1]
       /\ Has(activeRecordings, last.room)
            => activeRecordings[last.room].filePath # last.ret[1].filePath

\* C23: a session returned by stopRecording carries the time of the stop as
\* endedAt and a whole number of seconds, 1 or more, as durationSeconds,
\* whatever the clock read at start and at stop.
StoppedSessionHasDuration ==
  (last.op \in {"stopRecording", "leave-meeting"} /\ last.ret # <<>>)
    => LET meta == last.ret[1]
       IN /\ meta.endedAt = now
          /\ meta.durationSeconds \in Nat
          /\ meta.durationSeconds >= 1
          /\ meta.durationSeconds * MsPerSecond
               >= meta.endedAt - meta.startedAt - (MsPerSecond \div 2)

StoppedSessionHasDurationWitness ==
  /\ last.op = "stopRecording"
  /\ last.ret # <<>>
  /\ last.ret[1].endedAt < last.ret[1].startedAt
  /\ last.ret[1].durationSeconds = 1
  /\ \E h \in {completedRecordings[last.room]} :
       Len(h) = 2 /\ h[1].durationSeconds = 2
\* C24: a join, a leave, a step of a startRecording call or a disconnect
\* leaves every meeting it does not concern as it is (participants, active
\* recording, history, no recording call), and a join or leave is applied in
\* its own turn, with the recording call it gives rise to, while a
\* startRecording of another meeting is pending.
ActiveOf(active, r) == IF Has(active, r) THEN <<active[r]>> ELSE <<>>

RoomUntouched(r) ==
  /\ MembersOf(meetingParticipants', r) = Members(r)
  /\ ActiveOf(activeRecordings', r) = ActiveOf(activeRecordings, r)
  /\ completedRecordings'[r] = completedRecordings[r]
  /\ Issued(last', "start", r) = {}
  /\ Issued(last', "stop", r) = {}

PendingElsewhere(r) == \E t \in BagToSet(tasks) : t.room # r

RoomsAreIndependent ==
  [][\A r \in Rooms :
       /\ (last'.op \in {"join-meeting", "join-resumed", "leave-meeting",
                         "leave-resumed", "start-existing", "start-writing",
                         "file-opened", "file-written", "start-done",
                         "start-failed"}
             /\ last'.room # r)
            => RoomUntouched(r)
       /\ (last'.op = "disconnect" /\ last'.conn \notin Members(r))
            => RoomUntouched(r)
       /\ (last'.op = "join-meeting" /\ last'.room = r /\ last'.userName # ""
             /\ PendingElsewhere(r))
            => /\ last'.conn \in MembersOf(meetingParticipants', r)
               /\ Members(r) = {} => Issued(last', "start", r) # {}
       /\ (last'.op = "leave-meeting" /\ last'.room = r /\ PendingElsewhere(r))
            => /\ last'.conn \notin MembersOf(meetingParticipants', r)
               /\ (Members(r) = {last'.conn}) => Issued(last', "stop", r) # {}]_vars

\* C26: for every meeting, the participant set in meetingParticipants is the
\* set of sockets in the Socket.IO room of that name.
TableMatchesSocketRooms ==
  \A r \in Rooms : Members(r) = socketRooms[r]

\* C27: a user-joined packet names a socket that is a participant of the
\* meeting when the packet is sent; in particular none is sent for a socket
\* that has already left (and whose user-left has already been sent).
UserJoinedNamesAMember ==
  \A p \in last.emits :
    p.event = "user-joined" => p.socketId \in Members(p.room)

\* C28: as long as no startRecording call fails, a meeting that has a
\* participant and no pending startRecording call has an active recording:
\* every step other than a failing startRecording keeps it so.
OccupiedIsRecorded(mp, pending, active) ==
  \A r \in Rooms :
    (MembersOf(mp, r) # {} /\ \A t \in BagToSet(pending) : t.room # r)
      => Has(active, r)

OccupiedRoomIsRecorded ==
  [][(OccupiedIsRecorded(meetingParticipants, tasks, activeRecordings)
        /\ last'.op # "start-failed")
       => OccupiedIsRecorded(meetingParticipants', tasks', activeRecordings')]_vars

OccupiedRoomIsRecordedWitness ==
  \E r \in Rooms :
    /\ last.op = "start-existing"
    /\ last.room = r
    /\ Members(r) # {}
    /\ ~PendingStart(r)
    /\ Has(activeRecordings, r)
    /\ handled = 3

\* C29: while the server runs, an active recording stays in activeRecordings,
\* the same session, until the step that removes it, and that step appends it
\* to the meeting's history; the history changes in no other step.
ActiveLeavesOnlyByStop ==
  [][Running' => \A r \in Rooms :
       /\ Has(activeRecordings, r)
            => \/ ActiveOf(activeRecordings', r) = ActiveOf(activeRecordings, r)
               \/ /\ ~Has(activeRecordings', r)
                  /\ Len(completedRecordings'[r]) = Len(completedRecordings[r]) + 1
                  /\ LET done == completedRecordings'[r][Len(completedRecordings'[r])]
                     IN /\ done.filePath = activeRecordings[r].filePath
                        /\ done.startedAt = activeRecordings[r].startedAt
       /\ completedRecordings'[r] # completedRecordings[r]
            => Has(activeRecordings, r) /\ ~Has(activeRecordings', r)]_vars
\* C25: every message-received, reaction-received, raise-hand-updated,
\* user-joined and user-left packet carries a reading of the server's clock
\* taken in the turn that emits it, and a raise-hand turn emits what the
\* listener emits for the same payload with any other client timestamp: two
\* runs that differ only in that field send the same packets.
RoomEvents ==
  {"message-received", "reaction-received", "raise-hand-updated",
   "user-joined", "user-left"}

ServerStampsEvents ==
  [][/\ \A p \in Delivered(last', RoomEvents) :
          now <= p.timestamp /\ p.timestamp <= now'
     /\ last'.op = "raise-hand"
          => \A ts \in ClientTimestamps :
               last'.emits = RaiseHandEmits(last'.conn, last'.room, last'.userName,
                                            last'.body, ts)]_vars

\* a raised hand is delivered with the reading of a clock that has run on,
\* which no client timestamp equals
ServerStampsEventsWitness ==
  /\ last.op = "raise-hand"
  /\ now = TickMs
  /\ now \notin ClientTimestamps
  /\ \E p \in last.emits : p.event = "raise-hand-updated" /\ p.timestamp = now

\* C30: a message-received, reaction-received, raise-hand-updated, user-joined
\* or user-left packet of a meeting is delivered only to participants of that
\* meeting.
FanoutStaysInRoom ==
  \A p \in Delivered(last, RoomEvents) : p.to \in Members(p.room)
====
